---- MODULE Spec2Model ----
(***************************************************************************)
(* SkillBotML training scripts: load_training_data.py reads a CSV into the *)
(* arrays X and y, train_model.py splits them, builds and fits a dense     *)
(* network and saves it.  Every top-level statement of the two scripts is  *)
(* one action; an uncaught exception ends the process.                     *)
(*                                                                         *)
(* A table (DataFrame, Series, ndarray) is kept by provenance: the row     *)
(* labels and column names of the CSV cells it holds, in order, so that    *)
(* the cell at (i, j) of a table t is the CSV cell (t.rows[i], t.cols[j]). *)
(***************************************************************************)
EXTENDS Integers, Sequences, FiniteSets, TLC

(* ------------------------------ bounds -------------------------------- *)

\* Largest number of data rows of the CSV file.
MaxRows == 42

\* Number of feature names a CSV header draws from (beside "label").
NumFeatures == 2

\* Largest value of the process entropy (OS-seeded random state).
MaxEntropy == 1

\* Number of times the script is started on the same file (SpecRerun).
MaxRuns == 2

(* ------------------------- program constants -------------------------- *)

\* test_size=0.2, as a percentage.
TestSizePercent == 20

\* random_state=42
RandomState == 42

\* layers.Dense(64, ...), layers.Dense(32, ...), layers.Dense(1, ...)
Dense1Units == 64

Dense2Units == 32

OutputUnits == 1

\* epochs=10, batch_size=32
Epochs == 10

BatchSize == 32

\* data.head() shows the first five rows.
HeadRows == 5

\* The target column.
LabelColumn == "label"

(* ------------------------------ helpers ------------------------------- *)

Min(a, b) == IF a < b THEN a ELSE b

Range(s) == {s[i] : i \in DOMAIN s}

\* The value of a name that no statement has bound yet.
Unbound == [kind |-> "unbound"]

IsBound(v) == v.kind # "unbound"

\* pandas' default index of a frame of n rows: 0 .. n-1.
RangeIndex(n) == [i \in 1..n |-> i - 1]

\* Names for the feature columns; only "label" is a name the scripts know.
AllFeatureNames == <<"f1", "f2", "f3", "f4", "f5">>

\* The first k feature names, in order.
FeatureHeader(k) == [i \in 1..k |-> AllFeatureNames[i]]

InsertAt(s, p, x) == SubSeq(s, 1, p - 1) \o <<x>> \o SubSeq(s, p, Len(s))

\* Column dtypes read_csv infers: numeric (int64/float64) or object (text).
DTypes == {"num", "obj"}

(* --------------------------- the CSV on disk -------------------------- *)

\* Headers: up to NumFeatures feature columns and, at any place among them
\* or nowhere, the label column.  Names do not repeat (read_csv renames a
\* repeated name) and the scripts treat every name but "label" alike, so
\* the features are named in order.
Headers ==
    UNION {{FeatureHeader(k)} \cup {InsertAt(FeatureHeader(k), p, LabelColumn) : p \in 1..(k + 1)} :
        k \in 0..NumFeatures}

\* A frame without rows has only object columns.
ColumnsOf(h, n) ==
    {[i \in DOMAIN h |-> [name |-> h[i], dtype |-> d[i]]] :
        d \in {dd \in [DOMAIN h -> DTypes] : n = 0 => \A i \in DOMAIN h : dd[i] = "obj"}}

MissingFile == [exists |-> FALSE, columns |-> <<>>, nrows |-> 0]

CsvFiles ==
    {MissingFile} \cup
    UNION {{[exists |-> TRUE, columns |-> c, nrows |-> n] : c \in ColumnsOf(h, n)} :
        h \in Headers, n \in 0..MaxRows}

(* ------------------------- pandas and numpy --------------------------- *)

ColumnNames(cols) == [i \in DOMAIN cols |-> cols[i].name]

HasColumn(df, c) == c \in Range(ColumnNames(df.columns))

\* pd.read_csv(path) on a readable, non-empty file.
ReadCsvFrame(f) ==
    [kind |-> "DataFrame", rows |-> RangeIndex(f.nrows), columns |-> f.columns]

\* pd.read_csv raises FileNotFoundError on a missing file and EmptyDataError
\* on a file without a header line.
ReadCsvError(f) ==
    IF ~f.exists THEN "FileNotFoundError"
    ELSE IF Len(f.columns) = 0 THEN "EmptyDataError"
    ELSE "none"

\* data.head(): a new frame of the first HeadRows rows.
FrameHead(df) == [df EXCEPT !.rows = SubSeq(df.rows, 1, Min(HeadRows, Len(df.rows)))]

\* Mutant of DropError: drop(..., errors="ignore").
DropErrorIgnored(df, c) == "none"

\* data.drop(columns=[c]) raises KeyError when no column is named c.
DropError(df, c) == IF HasColumn(df, c) THEN "none" ELSE "KeyError"

\* Mutant of DropColumn: the last column taken for the label (data.iloc[:, :-1]).
DropLastColumn(df, c) ==
    [df EXCEPT !.columns = SubSeq(df.columns, 1, Len(df.columns) - 1)]

\* data.drop(columns=[c]): a new frame without column c, rows untouched.
DropColumn(df, c) ==
    [df EXCEPT !.columns = SelectSeq(df.columns, LAMBDA col : col.name # c)]

\* Mutant of GetColumn: the label taken from the preview frame data.head().
GetColumnOfHead(df, c) ==
    LET i == CHOOSE k \in DOMAIN df.columns : df.columns[k].name = c
    IN  [kind |-> "Series", rows |-> FrameHead(df).rows, name |-> c,
         dtype |-> df.columns[i].dtype]

\* data[c]: the column as a Series on the frame's index.
GetColumn(df, c) ==
    LET i == CHOOSE k \in DOMAIN df.columns : df.columns[k].name = c
    IN  [kind |-> "Series", rows |-> df.rows, name |-> c, dtype |-> df.columns[i].dtype]

\* np.array(frame): a 2-D array; object dtype as soon as one column is object
\* (float64 for a frame without columns); text raises nothing here.
FrameToArray(df) ==
    [kind |-> "ndarray", ndim |-> 2, rows |-> df.rows,
     cols |-> ColumnNames(df.columns),
     dtype |-> IF \A i \in DOMAIN df.columns : df.columns[i].dtype = "num"
               THEN "num" ELSE "obj"]

\* np.array(series): a 1-D array of the column's values.
SeriesToArray(s) ==
    [kind |-> "ndarray", ndim |-> 1, rows |-> s.rows, cols |-> <<s.name>>, dtype |-> s.dtype]

\* array.shape
Shape(a) == IF a.ndim = 2 THEN <<Len(a.rows), Len(a.cols)>> ELSE <<Len(a.rows)>>

\* array[idx]: the rows at the given 0-based positions, in that order.
Take(a, idx) == [a EXCEPT !.rows = [i \in DOMAIN idx |-> a.rows[idx[i] + 1]]]

(* ------------------------------ sklearn ------------------------------- *)

\* Mutant of NumTest: test_size=0.25.
NumTestQuarter(n) == (25 * n + 99) \div 100

\* n_test = ceil(test_size * n_samples); 0.2 * n is exact in binary floating
\* point whenever n is a multiple of 5, so the ceiling is that of n / 5.
NumTest(n) == (TestSizePercent * n + 99) \div 100

\* n_train = n_samples - n_test (train_size is not given).
NumTrain(n) == n - NumTest(n)

\* train_test_split raises ValueError when the training set would be empty.
SplitError(n) == IF NumTrain(n) = 0 THEN "ValueError" ELSE "none"

\* The low seven bits of the successive 32-bit outputs of MT19937 seeded by
\* init_genrand(42), which is numpy.random.RandomState(42).
MT19937Seed42 ==
    <<
       102, 51, 92, 14, 106, 71, 60, 20, 102, 121, 82, 86, 74, 74, 87, 116, 99, 103, 23, 2,
       21, 52, 1, 87, 107, 29, 37, 1, 63, 59, 20, 32, 75, 57, 21, 124, 107, 88, 48, 90,
       58, 126, 41, 127, 91, 59, 79, 14, 61, 61, 46, 61, 50, 107, 54, 115, 63, 120, 2, 100,
       50, 6, 20, 72, 38, 17, 3, 88, 59, 13, 113, 121, 8, 89, 52, 1, 83, 91, 110, 59,
       70, 43, 124, 7, 46, 34, 77, 80, 35, 49, 103, 3, 1, 125, 5, 53, 105, 3, 53, 92,
       62, 17, 89, 43, 33, 73, 61, 99, 13, 94, 47, 14, 71, 77, 86, 123, 120, 61, 39, 84,
       79, 108, 81, 110, 52, 23, 25, 88, 123, 59, 123, 108, 40, 28, 14, 44, 64, 88, 70, 8,
       87, 0, 107, 7, 87, 62, 10
    >>

\* The state a generator is in after `skip` outputs were consumed.
Advance(stream, skip) == SubSeq(stream, skip + 1, Len(stream))

\* numpy's rk_interval mask: the smallest 2^k - 1 that is >= max.
RECURSIVE MaskFrom(_, _)
MaskFrom(max, m) == IF m >= max THEN m ELSE MaskFrom(max, 2 * m + 1)

\* rk_interval(max): draw, keep the masked bits, reject values above max.
\* Gives the value and the stream position after it.
RECURSIVE Interval(_, _, _)
Interval(stream, pos, max) ==
    LET v == stream[pos] % (MaskFrom(max, 1) + 1)
    IN  IF v <= max THEN [value |-> v, next |-> pos + 1]
        ELSE Interval(stream, pos + 1, max)

Swap(a, i, j) == [a EXCEPT ![i] = a[j], ![j] = a[i]]

\* One step of RandomState.shuffle: swap a[i] with a[interval(i)].  s holds
\* the array and the generator's position.
ShuffleStep(stream, s, i) ==
    LET d == Interval(stream, s.pos, i)
    IN  [a |-> Swap(s.a, i + 1, d.value + 1), pos |-> d.next]

\* The steps of the shuffle loop for i = hi down to lo.  The loop is cut in
\* halves and the state after the upper half is bound as a value (upper)
\* before the lower half runs on it, which keeps the evaluation shallow.
RECURSIVE ShuffleRange(_, _, _, _)
ShuffleRange(stream, s, lo, hi) ==
    IF hi < lo THEN s
    ELSE IF lo = hi THEN CHOOSE r \in {ShuffleStep(stream, v, lo) : v \in {s}} : TRUE
    ELSE LET mid == (lo + hi) \div 2
         IN  CHOOSE r \in {ShuffleRange(stream, upper, lo, mid) :
                              upper \in {ShuffleRange(stream, s, mid + 1, hi)}} : TRUE

\* RandomState.permutation(n) = shuffle(arange(n)), for i = n-1 down to 1.
Permutation(stream, n) ==
    ShuffleRange(stream, [a |-> RangeIndex(n), pos |-> 1], 1, n - 1).a

\* Mutant of SplitStream: random_state left out, so that the split draws from
\* the process's own generator.
SplitStreamUnseeded(e) == Advance(MT19937Seed42, e + 1)

\* The output stream of numpy.random.RandomState(seed).
GeneratorStream(seed) == CASE seed = 42 -> MT19937Seed42

\* ShuffleSplit with random_state=42 builds a fresh RandomState(42) at every
\* call: the process entropy e plays no part.
SplitStream(e) == GeneratorStream(RandomState)

\* Mutant of TestIndices: the slice one element too long.
TestIndicesOneMore(n, e) == SubSeq(Permutation(MT19937Seed42, n), 1, NumTest(n) + 1)

\* test = permutation[:n_test], train = permutation[n_test:n_test + n_train]
TestIndices(n, e) == SubSeq(Permutation(SplitStream(e), n), 1, NumTest(n))

TrainIndices(n, e) ==
    SubSeq(Permutation(SplitStream(e), n), NumTest(n) + 1, NumTest(n) + NumTrain(n))

(* ------------------------------- keras -------------------------------- *)

\* Mutant of InputWidth: X_train.shape[0].
InputWidthRows(xt) == Shape(xt)[1]

\* X_train.shape[1]: the number of feature columns.
InputWidth(xt) == Shape(xt)[2]

\* models.Sequential([Input(shape=(width,)), Dense(64), Dense(32), Dense(1)]);
\* the initial weights are drawn from the process's random state.
Sequential(width, e) ==
    [kind |-> "Sequential", inputWidth |-> width,
     units |-> <<Dense1Units, Dense2Units, OutputUnits>>,
     activations |-> <<"relu", "relu", "sigmoid">>,
     weightsSeed |-> e, compiled |-> FALSE, state |-> "untrained",
     steps |-> 0, log |-> <<>>]

\* model.compile(optimizer="adam", loss="binary_crossentropy", metrics=["accuracy"])
Compiled(m) == [m EXCEPT !.compiled = TRUE]

\* Batches per epoch and the length of batch b.
NumBatches(n) == (n + BatchSize - 1) \div BatchSize

BatchLen(n, b) == Min(BatchSize, n - (b - 1) * BatchSize)

\* Mutant of FitDone: the loop one epoch short.
FitDoneEarly(f) == f.epoch >= Epochs

\* epochs=10: fit returns once the tenth epoch was run and evaluated.
FitDone(f) == f.epoch > Epochs

\* What model.fit raises before its first step: a ValueError when an array of
\* object dtype cannot become a tensor, or when the data's width is not the
\* input layer's.
FitError(m, xt, yt, xv, yv) ==
    IF "obj" \in {xt.dtype, yt.dtype, xv.dtype, yv.dtype} THEN "ValueError"
    ELSE IF Shape(xt)[2] # m.inputWidth \/ Shape(xv)[2] # m.inputWidth THEN "ValueError"
    ELSE "none"

\* model.save(path): the architecture and the weights.
SavedModel(m) ==
    [kind |-> "h5", inputWidth |-> m.inputWidth, units |-> m.units,
     activations |-> m.activations, steps |-> m.steps]

\* The shape of loaded_model.predict on n rows.
PredictShape(f, n) == <<n, f.units[Len(f.units)]>>

(* ------------------------------- state -------------------------------- *)

VARIABLES
    mode,       \* which script(s) the interpreter runs in one namespace
    csv,        \* the training-data file on disk
    entropy,    \* the process's random state, drawn when the trainer's libraries load
    pc,         \* the next statement
    err,        \* the uncaught exception that ended the process, or "none"
    stdout,     \* what print wrote
    data, X, y, \* load_training_data.py's names
    X_train, X_val, y_train, y_val, model, history,   \* train_model.py's names
    fit,        \* model.fit's position: epoch, batches done, samples seen in the epoch
    outFile,    \* trained_model.h5 on disk
    saves,      \* times this process wrote outFile
    run,        \* number of the current process
    prev        \* the split of the process before this one (SpecRerun)

vars ==
    <<mode, csv, entropy, pc, err, stdout, data, X, y, X_train, X_val, y_train, y_val,
      model, history, fit, outFile, saves, run, prev>>

envVars == <<mode, csv, run, prev>>

loaderVars == <<data, X, y>>

splitVars == <<X_train, X_val, y_train, y_val>>

fitVars == <<model, history, fit>>

diskVars == <<outFile, saves>>

\* Mutant of StartPc: train_model.py made to run the loader's statements first.
StartPcLoadsFirst(m) == "read_csv"

\* "loader": python load_training_data.py; "trainer": python train_model.py;
\* "pipeline": the loader and then the trainer in one namespace, the only way
\* train_model.py finds X and y.
Modes == {"loader", "trainer", "pipeline"}

StartPc(m) == IF m = "trainer" THEN "imports" ELSE "read_csv"

NoEntropy == 0 - 1

NoFit == [epoch |-> 0, batch |-> 0, samples |-> 0]

\* A fresh interpreter: nothing bound, nothing printed.
FreshProcess ==
    /\ pc = StartPc(mode)
    /\ err = "none"
    /\ entropy = NoEntropy
    /\ stdout = <<>>
    /\ data = Unbound /\ X = Unbound /\ y = Unbound
    /\ X_train = Unbound /\ X_val = Unbound /\ y_train = Unbound /\ y_val = Unbound
    /\ model = Unbound /\ history = Unbound
    /\ fit = NoFit
    /\ saves = 0

Init ==
    /\ mode \in Modes
    /\ csv \in CsvFiles
    /\ outFile = Unbound
    /\ run = 1
    /\ prev = Unbound
    /\ FreshProcess

\* Mutant of Raise: the exception noted and the statement tried again.
RaiseAndRetry(e) == err' = e /\ pc' = pc

\* An uncaught exception: the traceback is reported and the process ends.
Raise(e) == pc' = "exit" /\ err' = e

(* ----------------------- load_training_data.py ------------------------ *)

\* line 8: data = pd.read_csv(data_path)
ReadCsv ==
    /\ pc = "read_csv"
    /\ IF ReadCsvError(csv) # "none"
       THEN Raise(ReadCsvError(csv)) /\ UNCHANGED data
       ELSE data' = ReadCsvFrame(csv) /\ pc' = "preview" /\ UNCHANGED err
    /\ UNCHANGED <<envVars, entropy, stdout, X, y, splitVars, fitVars, diskVars>>

\* lines 11-12: print("Data Preview:"); print(data.head())
Preview ==
    /\ pc = "preview"
    /\ stdout' = stdout \o <<[text |-> "Data Preview:"], [text |-> "head", value |-> FrameHead(data)]>>
    /\ pc' = "drop"
    /\ UNCHANGED <<envVars, entropy, err, loaderVars, splitVars, fitVars, diskVars>>

\* line 16: X = data.drop(columns=["label"]); KeyError when there is no such column
DropLabel ==
    /\ pc = "drop"
    /\ IF DropError(data, LabelColumn) # "none"
       THEN Raise(DropError(data, LabelColumn)) /\ UNCHANGED X
       ELSE X' = DropColumn(data, LabelColumn) /\ pc' = "select" /\ UNCHANGED err
    /\ UNCHANGED <<envVars, entropy, stdout, data, y, splitVars, fitVars, diskVars>>

\* line 17: y = data["label"]
SelectLabel ==
    /\ pc = "select"
    /\ IF ~HasColumn(data, LabelColumn)
       THEN Raise("KeyError") /\ UNCHANGED y
       ELSE y' = GetColumn(data, LabelColumn) /\ pc' = "array_X" /\ UNCHANGED err
    /\ UNCHANGED <<envVars, entropy, stdout, data, X, splitVars, fitVars, diskVars>>

\* line 20: X = np.array(X)
ArrayX ==
    /\ pc = "array_X"
    /\ X' = FrameToArray(X)
    /\ pc' = "array_y"
    /\ UNCHANGED <<envVars, entropy, err, stdout, data, y, splitVars, fitVars, diskVars>>

\* line 21: y = np.array(y)
ArrayY ==
    /\ pc = "array_y"
    /\ y' = SeriesToArray(y)
    /\ pc' = "shapes"
    /\ UNCHANGED <<envVars, entropy, err, stdout, data, X, splitVars, fitVars, diskVars>>

\* lines 23-24: print the two shapes; the loader script ends here.
ShapeReport ==
    /\ pc = "shapes"
    /\ stdout' = stdout \o <<[text |-> "Features shape:", value |-> Shape(X)],
                            [text |-> "Labels shape:", value |-> Shape(y)]>>
    /\ pc' = IF mode = "loader" THEN "exit" ELSE "imports"
    /\ UNCHANGED <<envVars, entropy, err, loaderVars, splitVars, fitVars, diskVars>>

(* --------------------------- train_model.py --------------------------- *)

\* lines 1-3: the imports; tensorflow and numpy seed their generators.
Imports ==
    /\ pc = "imports"
    /\ entropy' \in 0..MaxEntropy
    /\ pc' = "split"
    /\ UNCHANGED <<envVars, err, stdout, loaderVars, splitVars, fitVars, diskVars>>

\* line 6: train_test_split(X, y, test_size=0.2, random_state=42); NameError
\* when X or y was never bound.
Split ==
    /\ pc = "split"
    /\ IF ~IsBound(X) \/ ~IsBound(y)
       THEN Raise("NameError") /\ UNCHANGED splitVars
       ELSE LET n == Len(X.rows)
            IN  IF SplitError(n) # "none"
                THEN Raise(SplitError(n)) /\ UNCHANGED splitVars
                ELSE \E train \in {TrainIndices(n, entropy)}, test \in {TestIndices(n, entropy)} :
                         /\ X_train' = Take(X, train)
                         /\ X_val' = Take(X, test)
                         /\ y_train' = Take(y, train)
                         /\ y_val' = Take(y, test)
                         /\ pc' = "build"
                         /\ UNCHANGED err
    /\ UNCHANGED <<envVars, entropy, stdout, loaderVars, fitVars, diskVars>>

\* lines 9-14: model = models.Sequential([...]) with Input(shape=(X_train.shape[1],))
BuildModel ==
    /\ pc = "build"
    /\ model' = Sequential(InputWidth(X_train), entropy)
    /\ pc' = "compile"
    /\ UNCHANGED <<envVars, entropy, err, stdout, loaderVars, splitVars, history, fit, diskVars>>

\* line 17: model.compile(...)
Compile ==
    /\ pc = "compile"
    /\ model' = Compiled(model)
    /\ pc' = "fit"
    /\ UNCHANGED <<envVars, entropy, err, stdout, loaderVars, splitVars, history, fit, diskVars>>

\* line 20, entering model.fit: the arrays become tensors and are checked
\* against the input layer before the first batch.
FitBegin ==
    /\ pc = "fit"
    /\ IF FitError(model, X_train, y_train, X_val, y_val) # "none"
       THEN Raise(FitError(model, X_train, y_train, X_val, y_val)) /\ UNCHANGED <<model, fit>>
       ELSE /\ model' = [model EXCEPT !.state = "training"]
            /\ fit' = [epoch |-> 1, batch |-> 0, samples |-> 0]
            /\ pc' = "training"
            /\ UNCHANGED err
    /\ UNCHANGED <<envVars, entropy, stdout, loaderVars, splitVars, history, diskVars>>

\* line 20, one gradient step on the next mini-batch of the epoch.
TrainBatch ==
    /\ pc = "training"
    /\ ~FitDone(fit)
    /\ fit.batch < NumBatches(Len(X_train.rows))
    /\ model' = [model EXCEPT !.steps = @ + 1]
    /\ fit' = [fit EXCEPT !.batch = @ + 1,
                          !.samples = @ + BatchLen(Len(X_train.rows), fit.batch + 1)]
    /\ UNCHANGED <<envVars, entropy, pc, err, stdout, loaderVars, splitVars, history, diskVars>>

\* line 20, the end of an epoch: the model is evaluated on validation_data
\* and the epoch's metrics are logged.
Validate ==
    /\ pc = "training"
    /\ ~FitDone(fit)
    /\ fit.batch = NumBatches(Len(X_train.rows))
    /\ model' = [model EXCEPT !.log = Append(@, [epoch |-> fit.epoch, steps |-> model.steps,
                                                  samples |-> fit.samples,
                                                  val_samples |-> Len(X_val.rows)])]
    /\ fit' = [epoch |-> fit.epoch + 1, batch |-> 0, samples |-> 0]
    /\ UNCHANGED <<envVars, entropy, pc, err, stdout, loaderVars, splitVars, history, diskVars>>

\* line 20, model.fit returns: history = the History of the epochs run.
FitReturn ==
    /\ pc = "training"
    /\ FitDone(fit)
    /\ history' = [kind |-> "History", epochs |-> model.log]
    /\ model' = [model EXCEPT !.state = "trained"]
    /\ pc' = "save"
    /\ UNCHANGED <<envVars, entropy, err, stdout, loaderVars, splitVars, fit, diskVars>>

\* line 23: model.save(path); the script ends.
Save ==
    /\ pc = "save"
    /\ outFile' = SavedModel(model)
    /\ saves' = saves + 1
    /\ model' = [model EXCEPT !.state = "saved"]
    /\ pc' = "exit"
    /\ UNCHANGED <<envVars, entropy, err, stdout, loaderVars, splitVars, history, fit>>

(* --------------------------- specifications --------------------------- *)

Next ==
    \/ ReadCsv \/ Preview \/ DropLabel \/ SelectLabel \/ ArrayX \/ ArrayY \/ ShapeReport
    \/ Imports \/ Split \/ BuildModel \/ Compile
    \/ FitBegin \/ TrainBatch \/ Validate \/ FitReturn \/ Save

\* One process, from start to exit.
Spec == Init /\ [][Next]_vars

\* The script is started again on the same file: a new interpreter and new
\* entropy; what is on disk stays.  prev keeps what the ended process held.
Rerun ==
    /\ pc = "exit"
    /\ run < MaxRuns
    /\ run' = run + 1
    /\ prev' = [kind |-> "process", X |-> X, y |-> y,
                X_train |-> X_train, X_val |-> X_val, y_train |-> y_train, y_val |-> y_val]
    /\ pc' = StartPc(mode)
    /\ err' = "none"
    /\ entropy' = NoEntropy
    /\ stdout' = <<>>
    /\ data' = Unbound /\ X' = Unbound /\ y' = Unbound
    /\ X_train' = Unbound /\ X_val' = Unbound /\ y_train' = Unbound /\ y_val' = Unbound
    /\ model' = Unbound /\ history' = Unbound
    /\ fit' = NoFit
    /\ saves' = 0
    /\ UNCHANGED <<mode, csv, outFile>>

NextRerun == Next \/ Rerun

\* Repeated runs of the pipeline on one file.
InitRerun == Init /\ mode = "pipeline"

SpecRerun == InitRerun /\ [][NextRerun]_vars

\* Once model.fit has begun, the interpreter runs it and the save that
\* follows to their end: one thread, synchronous, every library call returns.
SpecFair ==
    Spec /\ WF_vars(TrainBatch) /\ WF_vars(Validate) /\ WF_vars(FitReturn) /\ WF_vars(Save)

\* The end-to-end scenario: 100 rows, 5 numeric feature columns and the
\* label column (at any place in the header), both scripts in one namespace.
E2EFiles ==
    {[exists |-> TRUE, nrows |-> 100,
      columns |-> [i \in 1..6 |-> [name |-> InsertAt(FeatureHeader(5), p, LabelColumn)[i],
                                   dtype |-> "num"]]] : p \in 1..6}

InitE2E ==
    /\ mode = "pipeline"
    /\ csv \in E2EFiles
    /\ outFile = Unbound
    /\ run = 1
    /\ prev = Unbound
    /\ FreshProcess

SpecE2E == InitE2E /\ [][Next]_vars /\ WF_vars(Next)

(* ------------------------------- claims ------------------------------- *)

\* The model's stage: untrained -> training -> trained -> saved.
ModelStage == IF IsBound(model) THEN model.state ELSE "none"

\* The feature columns of X, a frame (line 16) or an array (line 20).
FeatureColumns == IF X.kind = "DataFrame" THEN ColumnNames(X.columns) ELSE X.cols

\* C1: once the loader has bound X and y (frames or arrays), X has as many
\* rows as y has entries and as the CSV has data rows, and row i of X and
\* entry i of y both come from row i of the file: none dropped, duplicated
\* or reordered.
C1_RowsAligned ==
    (IsBound(X) /\ IsBound(y)) =>
        /\ Len(X.rows) = csv.nrows
        /\ Len(y.rows) = csv.nrows
        /\ X.rows = RangeIndex(csv.nrows)
        /\ y.rows = RangeIndex(csv.nrows)
        /\ (X.kind = "ndarray" => Shape(X)[1] = csv.nrows)
        /\ (y.kind = "ndarray" => Shape(y) = <<csv.nrows>>)

C1_Witness ==
    /\ X.kind = "ndarray" /\ y.kind = "ndarray"
    /\ pc = "exit" /\ err = "none"
    /\ csv.nrows >= 7

\* C2: after the split of n rows with test_size 0.2 the training and the
\* validation rows are n together, for X and for y, and the number of
\* validation rows differs from 0.2 * n by less than one.
C2_SplitSizes ==
    IsBound(X_train) =>
        LET n == Len(X.rows)
            v == Len(X_val.rows)
        IN  /\ Len(X_train.rows) + v = n
            /\ Len(y_train.rows) + Len(y_val.rows) = n
            /\ Len(y_val.rows) = v
            /\ 5 * v - n < 5
            /\ n - 5 * v < 5

C2_Witness == IsBound(X_train) /\ Len(X.rows) = 7 /\ Len(X_val.rows) = 2

\* C3: two runs on the same arrays X and y, each a process with entropy of
\* its own, put the same rows in the same order in the training subset and
\* in the validation subset.
C3_SplitDeterministic ==
    (IsBound(prev) /\ IsBound(X_train) /\ IsBound(prev.X_train) /\ prev.X = X /\ prev.y = y) =>
        /\ X_train = prev.X_train
        /\ X_val = prev.X_val
        /\ y_train = prev.y_train
        /\ y_val = prev.y_val

C3_Witness ==
    /\ IsBound(prev) /\ IsBound(X_train) /\ IsBound(prev.X_train)
    /\ prev.X = X /\ prev.y = y
    /\ run >= 2
    /\ Len(X.rows) >= 10
    /\ X_val.rows # SubSeq(X.rows, 1, Len(X_val.rows))

\* C4: the model's input width is the number of columns of the feature
\* matrix; a model whose width is not the width of the training data never
\* takes a training step, is never saved, and its fit ends the run with a
\* ValueError.
C4_InputWidthMatches ==
    IsBound(model) =>
        /\ model.inputWidth = Shape(X)[2]
        /\ model.inputWidth = Len(csv.columns) - 1
        /\ model.inputWidth # Shape(X_train)[2] =>
               /\ model.steps = 0
               /\ model.state = "untrained"
               /\ saves = 0
               /\ pc \in {"compile", "fit", "exit"}
               /\ (pc = "exit" => err = "ValueError")

C4_Witness == IsBound(model) /\ model.steps >= 1 /\ model.inputWidth = 2

\* C5: when the loaded dataset has no column "label", X and y are never
\* bound, no shape is reported, nothing is split, built or saved, and once
\* line 16 has run the process has ended with a KeyError.
C5_MissingLabelFails ==
    (IsBound(data) /\ ~HasColumn(data, LabelColumn)) =>
        /\ ~IsBound(X) /\ ~IsBound(y)
        /\ ~IsBound(X_train) /\ ~IsBound(X_val) /\ ~IsBound(y_train) /\ ~IsBound(y_val)
        /\ ~IsBound(model) /\ ~IsBound(history) /\ ~IsBound(outFile)
        /\ \A i \in DOMAIN stdout : stdout[i].text \notin {"Features shape:", "Labels shape:"}
        /\ (pc \notin {"preview", "drop"} => pc = "exit" /\ err = "KeyError")

C5_Witness ==
    /\ IsBound(data) /\ ~HasColumn(data, LabelColumn)
    /\ err = "KeyError"
    /\ Len(data.columns) = 2 /\ csv.nrows >= 1

C6_Safe ==
    /\ err = "none"
    /\ pc \in {"build", "compile", "fit", "training", "save"} => IsBound(X_train)
    /\ IsBound(X_train) =>
           /\ Shape(X_train) = <<80, 5>> /\ Shape(y_train) = <<80>>
           /\ Shape(X_val) = <<20, 5>> /\ Shape(y_val) = <<20>>
    /\ IsBound(history) =>
           /\ Len(history.epochs) = 10
           /\ \A i \in 1..10 : /\ history.epochs[i].epoch = i
                               /\ history.epochs[i].samples = 80
                               /\ history.epochs[i].val_samples = 20
    /\ IsBound(outFile) =>
           /\ IsBound(history) /\ saves = 1
           /\ outFile.inputWidth = 5
           /\ \A n \in 1..3 : PredictShape(outFile, n) = <<n, 1>>
    /\ pc = "exit" => IsBound(outFile)

\* C6: on 100 rows of 5 numeric features and a label the pipeline never
\* fails, trains on 80 rows and validates on 20, runs exactly 10 epochs,
\* and ends having written a model file whose predictions on n rows have
\* shape (n, 1).
C6_EndToEnd == []C6_Safe /\ <>(pc = "exit" /\ IsBound(outFile))

C6_Witness ==
    /\ pc = "exit" /\ IsBound(outFile)
    /\ Len(history.epochs) = 10
    /\ model.steps = 30

C7_Safe ==
    LET nb == NumBatches(Len(X_train.rows))
    IN  /\ ModelStage \in {"none", "untrained"} => saves = 0 /\ (IsBound(model) => model.steps = 0)
        /\ ModelStage = "training" =>
               /\ Len(model.log) = fit.epoch - 1
               /\ model.steps = (fit.epoch - 1) * nb + fit.batch
               /\ saves = 0
        /\ ModelStage \in {"trained", "saved"} =>
               /\ Len(model.log) = Epochs
               /\ model.steps = Epochs * nb
        /\ IsBound(model) =>
               \A i \in DOMAIN model.log :
                   /\ model.log[i].epoch = i
                   /\ model.log[i].steps = i * nb
                   /\ model.log[i].samples = Len(X_train.rows)
                   /\ model.log[i].val_samples = Len(X_val.rows)
        /\ IsBound(outFile) => ModelStage = "saved" /\ outFile.steps = Epochs * nb
        /\ saves <= 1
        /\ (saves = 1) <=> (ModelStage = "saved")
        /\ ModelStage = "saved" => pc = "exit" /\ err = "none"

C7_Transitions ==
    \/ ModelStage' = ModelStage
    \/ <<ModelStage, ModelStage'>> \in
           {<<"none", "untrained">>, <<"untrained", "training">>,
            <<"training", "trained">>, <<"trained", "saved">>}

\* C7: the model only moves none -> untrained -> training -> trained ->
\* saved; it is saved only after 10 passes, each over the whole training
\* subset and each followed by exactly one evaluation on the validation
\* subset before the next pass; it is saved at most once, the process ends
\* with the save, and a model that started training is eventually saved.
C7_Lifecycle ==
    /\ []C7_Safe
    /\ [][C7_Transitions]_vars
    /\ (ModelStage = "training") ~> (ModelStage = "saved")

C7_Witness ==
    /\ ModelStage = "saved"
    /\ NumBatches(Len(X_train.rows)) = 2
    /\ Len(model.log) = 10

C8_Safe ==
    /\ err # "none" => pc = "exit" /\ ~IsBound(outFile) /\ saves = 0
    /\ IsBound(outFile) =>
           /\ err = "none"
           /\ IsBound(data) /\ X.kind = "ndarray" /\ y.kind = "ndarray"
           /\ IsBound(X_train) /\ IsBound(X_val) /\ IsBound(y_train) /\ IsBound(y_val)
           /\ IsBound(model) /\ model.compiled /\ Len(model.log) = Epochs
           /\ IsBound(history)

C8_Step ==
    /\ err = "none"
    /\ err' # "none" =>
           /\ pc' = "exit"
           /\ UNCHANGED <<stdout, loaderVars, splitVars, fitVars, diskVars>>

\* C8: a failed step ends the process: it binds nothing, no step follows it
\* (so none is retried), and the model file is written only by a run in
\* which every step before the save succeeded.
C8_FailFast == []C8_Safe /\ [][C8_Step]_vars

C8_Witness ==
    /\ err = "ValueError" /\ pc = "exit"
    /\ IsBound(model) /\ model.compiled /\ model.steps = 0
    /\ X_train.dtype = "obj"

\* C9: the features of X are the c - 1 columns of the file other than
\* "label", in the file's order, and the frame data is still what read_csv
\* returned.
C9_FeatureColumns ==
    IsBound(X) =>
        LET names == ColumnNames(csv.columns)
            c == Len(names)
        IN  /\ Len(FeatureColumns) = c - 1
            /\ LabelColumn \notin Range(FeatureColumns)
            /\ \E p \in 1..c :
                   /\ names[p] = LabelColumn
                   /\ FeatureColumns = [i \in 1..(c - 1) |-> IF i < p THEN names[i] ELSE names[i + 1]]
            /\ data = ReadCsvFrame(csv)

C9_Witness ==
    /\ X.kind = "ndarray"
    /\ Len(csv.columns) = 3
    /\ csv.columns[2].name = LabelColumn

\* C10: the split runs on the loader's arrays and nothing else: whatever is
\* split, built, trained or saved comes from X and y bound by the loader in
\* the same namespace, and train_model.py run on its own ends at line 6 with
\* a NameError, with nothing split, built or saved.
C10_TrainerNeedsLoader ==
    /\ (pc \in {"build", "compile", "fit", "training", "save"} \/ IsBound(X_train)) =>
           /\ mode = "pipeline"
           /\ X.kind = "ndarray" /\ y.kind = "ndarray"
           /\ X_train.cols = X.cols /\ X_val.cols = X.cols
           /\ Range(X_train.rows) \cup Range(X_val.rows) = Range(X.rows)
           /\ Range(y_train.rows) \cup Range(y_val.rows) = Range(y.rows)
    /\ mode = "trainer" =>
           /\ ~IsBound(X) /\ ~IsBound(y)
           /\ ~IsBound(X_train) /\ ~IsBound(X_val) /\ ~IsBound(y_train) /\ ~IsBound(y_val)
           /\ ~IsBound(model) /\ ~IsBound(outFile)
           /\ pc \in {"imports", "split", "exit"}
           /\ (pc = "exit" => err = "NameError")

C10_Witness == mode = "trainer" /\ pc = "exit" /\ err = "NameError"

====
